---- MODULE Spec2Model ----
(***************************************************************************)
(* TashBoss: the game API (src/api.py, FastAPI + Firestore document) and   *)
(* the Telegram bot (src/bot.py, players.json file).                       *)
(*                                                                         *)
(* The two programs are independent: a behaviour is a run of one of them   *)
(* (variable program).  Time is counted in whole seconds.  One player      *)
(* (one Firestore document, one entry of players.json) is modelled; the    *)
(* documents of different players never interact.                          *)
(*                                                                         *)
(* An API request is a sequence of steps, each of which touches the        *)
(* document store at most once:                                            *)
(*   Request     the handler starts and samples time.time()                *)
(*   LoadGet     load_player_state: doc_ref.get()                          *)
(*   LoadCreate  load_player_state: doc_ref.set(initial) when get found    *)
(*               nothing                                                   *)
(*   LoadState / CollectIncome / CollectAllIncome / UpgradeSector          *)
(*               the rest of the handler: computation on the loaded copy,  *)
(*               save_player_state (doc_ref.set) and the response          *)
(* A handler is an async function that never awaits, so one worker process *)
(* runs it to the end; the steps of requests served by different workers   *)
(* (uvicorn workers, service instances) interleave freely.  The code takes *)
(* no lock and uses no Firestore transaction.                              *)
(***************************************************************************)
EXTENDS Integers, Sequences, FiniteSets, TLC

VARIABLES program, db, now, store, pc, req, loaded, res, players, botOut, hist, nreq,
          calc

vars == <<program, db, now, store, pc, req, loaded, res, players, botOut, hist, nreq,
          calc>>

(* ------------------------------ bounds -------------------------------- *)

\* number of API requests that can be in flight at once (workers)
NumProcs == 2
\* first clock value of a run
StartTime == 6
\* last clock value of a run with interleaved requests
MaxTime == 8
\* last clock value of a run with one request at a time
MaxSeqTime == 12
\* last clock value a run with an adjustable clock can observe
MaxSkewTime == 18
\* number of requests / bot updates in a run with interleaved requests
MaxRequests == 2
\* number of requests / bot updates in a run with one request at a time
MaxSeqRequests == 3
\* highest level a price is computed for
MaxCostLevel == 210
\* a maximum offline window, in seconds, that a capped accrual would apply
OfflineWindow == 5
\* balance of a player who can pay any of these prices
RichBalance == 1000000000

Procs == 1..NumProcs

\* sector keys the clients send ("bogus" is not a configured sector)
RequestKeys == {"chorsu_market", "tourism", "bogus"}

\* industry keys of the callback buttons the bot user presses
BotKeys == {"tourism", "infrastructure", "air_quality"}

(* --------------------------- arithmetic ------------------------------- *)

Max(a, b) == IF a >= b THEN a ELSE b

\* int(a / b) for b > 0: Python's int() truncates toward zero
TruncDiv(a, b) == IF a >= 0 THEN a \div b ELSE -((-a) \div b)

RECURSIVE ISqrtIter(_, _)
ISqrtIter(n, x) ==
    LET y == (x + (n \div x)) \div 2
    IN  IF y >= x THEN x ELSE ISqrtIter(n, y)

\* floor of the square root
ISqrt(n) == IF n <= 0 THEN 0 ELSE ISqrtIter(n, n)

\* floor(sqrt(b * b * n)), from root = floor(sqrt(n)) and rem = n - root * root:
\* one factor p of b at a time, the root of p * p * m is p * root(m) + d for the
\* largest d < p with (2 * p * root(m) + d) * d <= p * p * rem(m).  Factors 5
\* go first, so that no intermediate value leaves 32 bits.
RECURSIVE ScaledRoot(_, _, _)
ScaledRoot(b, root, rem) ==
    IF b <= 1 THEN root
    ELSE LET p == IF b % 5 = 0 THEN 5 ELSE IF b % 2 = 0 THEN 2 ELSE b
             fits(x) == (2 * p * root + x) * x <= p * p * rem
             d == CHOOSE x \in 0..(p - 1) :
                      fits(x) /\ \A y \in (x + 1)..(p - 1) : ~fits(y)
         IN  ScaledRoot(b \div p, p * root + d, p * p * rem - (2 * p * root + d) * d)

(* ------------------------- src/api.py: config ------------------------- *)

INDUSTRIES_CONFIG ==
    [ chorsu_market  |-> [base_income |-> 1,  base_cost |-> 100,   base_cycle_time |-> 5],
      transport      |-> [base_income |-> 2,  base_cost |-> 250,   base_cycle_time |-> 8],
      communal       |-> [base_income |-> 3,  base_cost |-> 500,   base_cycle_time |-> 10],
      tourism        |-> [base_income |-> 5,  base_cost |-> 1000,  base_cycle_time |-> 12],
      ecology        |-> [base_income |-> 8,  base_cost |-> 2500,  base_cycle_time |-> 15],
      infrastructure |-> [base_income |-> 12, base_cost |-> 5000,  base_cycle_time |-> 18],
      air_quality    |-> [base_income |-> 18, base_cost |-> 10000, base_cycle_time |-> 22],
      international  |-> [base_income |-> 25, base_cost |-> 20000, base_cycle_time |-> 25],
      ict            |-> [base_income |-> 35, base_cost |-> 40000, base_cycle_time |-> 30],
      innovation     |-> [base_income |-> 50, base_cost |-> 80000, base_cycle_time |-> 35] ]

ConfigKeys == DOMAIN INDUSTRIES_CONFIG

MAX_LEVEL == 100

\* mutant: the square root is truncated before it is raised to the third power
UpgradeCost_root_first(base_cost, level) ==
    base_cost * ISqrt(level) * ISqrt(level) * ISqrt(level)

\* int(base_cost * (level ** 1.5)) = floor(sqrt(base_cost^2 * level^3)).  For a
\* level that is a perfect square q*q the power is the exact float q^3.  (The
\* float result equals this integer for every configured sector and every
\* level 1..260.)
UpgradeCost(base_cost, level) ==
    LET q == ISqrt(level)
        cube == level * level * level
        root == ISqrt(cube)
    IN  IF q * q = level THEN base_cost * q * q * q
        ELSE ScaledRoot(base_cost, root, cube - root * root)

\* The pairs <<base_cycle_time, level>> of the configured sectors, below level
\* 2 * MAX_LEVEL, at which the product base_cycle_time * (1.0 - 0.5 * (level /
\* MAX_LEVEL)) is a whole number n and the double arithmetic yields a value
\* just below n, so that int() gives n - 1.
FloatRoundsDown ==
    { <<10, 160>>, <<15, 160>>, <<25, 112>>, <<25, 136>>, <<25, 160>>, <<25, 184>>,
      <<30, 160>>, <<30, 180>>, <<35, 160>> }

\* mutant: the cycle time is not kept at 1 second or more
CycleTime_unclamped(base_cycle_time, level) ==
    IF level >= 2 * MAX_LEVEL THEN 0
    ELSE (base_cycle_time * (2 * MAX_LEVEL - level)) \div (2 * MAX_LEVEL)

\* max(1, int(base_cycle_time * (1.0 - 0.5 * (level / MAX_LEVEL)))): the factor
\* is (2*MAX_LEVEL - level) / (2*MAX_LEVEL), and from level 2 * MAX_LEVEL on the
\* product is <= 0.  (The float result equals this integer for every
\* configured sector and every level 1..399.)
CycleTime(base_cycle_time, level) ==
    IF level >= 2 * MAX_LEVEL THEN 1
    ELSE Max(1, (base_cycle_time * (2 * MAX_LEVEL - level)) \div (2 * MAX_LEVEL)
                  - (IF <<base_cycle_time, level>> \in FloatRoundsDown THEN 1 ELSE 0))

\* mutant: the income per cycle does not grow with the level
get_sector_params_flat_income(sector_key, level) ==
    IF sector_key \notin ConfigKeys
    THEN [income |-> 0, cost |-> 0, cycle_time |-> 0]
    ELSE LET config == INDUSTRIES_CONFIG[sector_key]
         IN  IF level <= 0
             THEN [income |-> 0, cost |-> config.base_cost,
                   cycle_time |-> config.base_cycle_time]
             ELSE [income |-> config.base_income,
                   cost |-> UpgradeCost(config.base_cost, level),
                   cycle_time |-> CycleTime(config.base_cycle_time, level)]

get_sector_params(sector_key, level) ==
    IF sector_key \notin ConfigKeys
    THEN [income |-> 0, cost |-> 0, cycle_time |-> 0]
    ELSE LET config == INDUSTRIES_CONFIG[sector_key]
         IN  IF level <= 0
             THEN [income |-> 0, cost |-> config.base_cost,
                   cycle_time |-> config.base_cycle_time]
             ELSE [income |-> config.base_income * level,
                   cost |-> UpgradeCost(config.base_cost, level),
                   cycle_time |-> CycleTime(config.base_cycle_time, level)]

(* ----------------------- src/api.py: the ledger ----------------------- *)

UserId == "u1"

\* a sector as load_player_state fills it in when the document lacks it
NewSector(key) ==
    [level |-> 0, last_collect |-> 0,
     current_cycle_time |-> INDUSTRIES_CONFIG[key].base_cycle_time]

get_initial_player_state(user_id) ==
    LET starter_key == "chorsu_market"
        starter_level == 1
        starter_params == get_sector_params(starter_key, starter_level)
    IN  [user_id |-> user_id,
         balance |-> 1000,
         total_income |-> 0,
         industries |->
            [key \in ConfigKeys |->
                IF key = starter_key
                THEN [level |-> starter_level, last_collect |-> 0,
                      current_cycle_time |-> starter_params.cycle_time]
                ELSE NewSector(key)]]

\* The Firestore document is <<>> (absent) or <<data>>.
NoDoc == <<>>

\* load_player_state, the branch for an existing document: doc.to_dict() with
\* the configured sectors the document lacks added.
LoadedState(data) ==
    [data EXCEPT !.industries =
        [key \in ConfigKeys \cup DOMAIN data.industries |->
            IF key \in DOMAIN data.industries THEN data.industries[key]
            ELSE NewSector(key)]]

(* ------------------- src/api.py: the request handlers ----------------- *)
(* A handler's computation on the loaded copy: the HTTP status, the error  *)
(* detail or the response body, the copy as the handler leaves it, and     *)
(* whether save_player_state is called.                                    *)

HttpError(state, detail) ==
    [code |-> 400, detail |-> detail, body |-> [error |-> detail],
     state |-> state, save |-> FALSE]

HttpOk(state, body, save) ==
    [code |-> 200, detail |-> "", body |-> body, state |-> state, save |-> save]

\* mutant: a cycle in progress counts as completed
CyclesCompleted_rounds_up(current_time, last_collect, cycle_time) ==
    IF current_time - last_collect > 0
    THEN (current_time - last_collect + cycle_time - 1) \div cycle_time
    ELSE TruncDiv(current_time - last_collect, cycle_time)

\* cycles_completed = int(elapsed / cycle_time)
CyclesCompleted(current_time, last_collect, cycle_time) ==
    TruncDiv(current_time - last_collect, cycle_time)

\* mutant: a collect credits the income and leaves last_collect as it was
collect_income_endpoint_keeps_last_collect(state, sector_key, current_time) ==
    IF sector_key \notin DOMAIN state.industries
       \/ state.industries[sector_key].level = 0
    THEN HttpError(state, "Sector not owned or invalid.")
    ELSE LET sector_data == state.industries[sector_key]
             params == get_sector_params(sector_key, sector_data.level)
             cycles_completed ==
                 CyclesCompleted(current_time, sector_data.last_collect, params.cycle_time)
             collected_income == cycles_completed * params.income
             new_state == [state EXCEPT !.balance = @ + collected_income]
         IN  IF cycles_completed = 0
             THEN HttpError(state, "Income is not ready yet.")
             ELSE HttpOk(new_state,
                         [collected_income |-> collected_income,
                          new_balance |-> new_state.balance],
                         TRUE)

collect_income_endpoint(state, sector_key, current_time) ==
    IF sector_key \notin DOMAIN state.industries
       \/ state.industries[sector_key].level = 0
    THEN HttpError(state, "Sector not owned or invalid.")
    ELSE LET sector_data == state.industries[sector_key]
             params == get_sector_params(sector_key, sector_data.level)
             cycles_completed ==
                 CyclesCompleted(current_time, sector_data.last_collect, params.cycle_time)
             collected_income == cycles_completed * params.income
             new_state ==
                 [state EXCEPT !.balance = @ + collected_income,
                               !.industries[sector_key].last_collect = current_time]
         IN  IF cycles_completed = 0
             THEN HttpError(state, "Income is not ready yet.")
             ELSE HttpOk(new_state,
                         [collected_income |-> collected_income,
                          new_balance |-> new_state.balance],
                         TRUE)

\* what one pass of the loop of collect_all_income_endpoint collects from a sector
SectorIncome(state, key, current_time) ==
    LET sector_data == state.industries[key]
        params == get_sector_params(key, sector_data.level)
        cycles_completed ==
            CyclesCompleted(current_time, sector_data.last_collect, params.cycle_time)
    IN  IF sector_data.level > 0 /\ cycles_completed > 0
        THEN cycles_completed * params.income
        ELSE 0

RECURSIVE SumOver(_, _)
SumOver(f, S) ==
    IF S = {} THEN 0
    ELSE LET k == CHOOSE x \in S : TRUE IN f[k] + SumOver(f, S \ {k})

\* mutant: every owned sector restarts its cycle when anything is collected
collect_all_income_endpoint_touches_all(state, current_time) ==
    LET keys == DOMAIN state.industries
        income == [key \in keys |-> SectorIncome(state, key, current_time)]
        total_collected_income == SumOver(income, keys)
        touched ==
            [state EXCEPT !.industries =
                [key \in keys |->
                    IF total_collected_income > 0 /\ state.industries[key].level > 0
                    THEN [state.industries[key] EXCEPT !.last_collect = current_time]
                    ELSE state.industries[key]]]
        new_state ==
            IF total_collected_income > 0
            THEN [touched EXCEPT !.balance = @ + total_collected_income]
            ELSE touched
    IN  HttpOk(new_state,
               [total_collected_income |-> total_collected_income,
                new_balance |-> new_state.balance],
               total_collected_income > 0)

collect_all_income_endpoint(state, current_time) ==
    LET keys == DOMAIN state.industries
        income == [key \in keys |-> SectorIncome(state, key, current_time)]
        total_collected_income == SumOver(income, keys)
        touched ==
            [state EXCEPT !.industries =
                [key \in keys |->
                    IF income[key] > 0
                    THEN [state.industries[key] EXCEPT !.last_collect = current_time]
                    ELSE state.industries[key]]]
        new_state ==
            IF total_collected_income > 0
            THEN [touched EXCEPT !.balance = @ + total_collected_income]
            ELSE touched
    IN  HttpOk(new_state,
               [total_collected_income |-> total_collected_income,
                new_balance |-> new_state.balance],
               total_collected_income > 0)

\* mutant: the price of the current level is charged, not that of the next
upgrade_sector_endpoint_stale_price(state, sector_key, current_time) ==
    IF sector_key \notin DOMAIN state.industries
    THEN HttpError(state, "Invalid sector key.")
    ELSE LET sector_data == state.industries[sector_key]
             next_level == sector_data.level + 1
             cost == get_sector_params(sector_key, sector_data.level).cost
             new_state ==
                 [state EXCEPT
                     !.balance = @ - cost,
                     !.industries[sector_key] =
                         [level |-> next_level,
                          last_collect |-> current_time,
                          current_cycle_time |->
                              get_sector_params(sector_key, next_level).cycle_time]]
         IN  IF state.balance < cost
             THEN HttpError(state, "Insufficient BSS.")
             ELSE HttpOk(new_state,
                         [new_level |-> next_level, new_balance |-> new_state.balance],
                         TRUE)

\* mutant: a balance equal to the cost is refused
upgrade_sector_endpoint_strict(state, sector_key, current_time) ==
    IF sector_key \notin DOMAIN state.industries
    THEN HttpError(state, "Invalid sector key.")
    ELSE LET sector_data == state.industries[sector_key]
             next_level == sector_data.level + 1
             cost == get_sector_params(sector_key, next_level).cost
             new_state ==
                 [state EXCEPT
                     !.balance = @ - cost,
                     !.industries[sector_key] =
                         [level |-> next_level,
                          last_collect |-> current_time,
                          current_cycle_time |->
                              get_sector_params(sector_key, next_level).cycle_time]]
         IN  IF state.balance <= cost
             THEN HttpError(state, "Insufficient BSS.")
             ELSE HttpOk(new_state,
                         [new_level |-> next_level, new_balance |-> new_state.balance],
                         TRUE)

\* mutant: the cycle restart is saved although the funds do not suffice
upgrade_sector_endpoint_saves_failure(state, sector_key, current_time) ==
    IF sector_key \notin DOMAIN state.industries
    THEN HttpError(state, "Invalid sector key.")
    ELSE LET sector_data == state.industries[sector_key]
             next_level == sector_data.level + 1
             cost == get_sector_params(sector_key, next_level).cost
             restarted ==
                 [state EXCEPT !.industries[sector_key].last_collect = current_time]
             new_state ==
                 [state EXCEPT
                     !.balance = @ - cost,
                     !.industries[sector_key] =
                         [level |-> next_level,
                          last_collect |-> current_time,
                          current_cycle_time |->
                              get_sector_params(sector_key, next_level).cycle_time]]
         IN  IF state.balance < cost
             THEN [HttpError(restarted, "Insufficient BSS.") EXCEPT !.save = TRUE]
             ELSE HttpOk(new_state,
                         [new_level |-> next_level, new_balance |-> new_state.balance],
                         TRUE)

\* mutant: a key the ledger lacks is bought as a new sector, without validation
upgrade_sector_endpoint_no_validation(state, sector_key, current_time) ==
    LET known == sector_key \in DOMAIN state.industries
        current_level == IF known THEN state.industries[sector_key].level ELSE 0
        next_level == current_level + 1
        cost == get_sector_params(sector_key, next_level).cost
        new_state ==
            [state EXCEPT
                !.balance = @ - cost,
                !.industries =
                    [k \in DOMAIN state.industries \cup {sector_key} |->
                        IF k = sector_key
                        THEN [level |-> next_level,
                              last_collect |-> current_time,
                              current_cycle_time |->
                                  get_sector_params(sector_key, next_level).cycle_time]
                        ELSE state.industries[k]]]
    IN  IF state.balance < cost
        THEN HttpError(state, "Insufficient BSS.")
        ELSE HttpOk(new_state,
                    [new_level |-> next_level, new_balance |-> new_state.balance],
                    TRUE)

\* mutant: the income accrued by every sector is settled into the balance
\* before the price is compared with it
upgrade_sector_endpoint_settles_first(state, sector_key, current_time) ==
    IF sector_key \notin DOMAIN state.industries
    THEN HttpError(state, "Invalid sector key.")
    ELSE LET settled == collect_all_income_endpoint(state, current_time).state
             sector_data == settled.industries[sector_key]
             next_level == sector_data.level + 1
             cost == get_sector_params(sector_key, next_level).cost
             new_state ==
                 [settled EXCEPT
                     !.balance = @ - cost,
                     !.industries[sector_key] =
                         [level |-> next_level,
                          last_collect |-> current_time,
                          current_cycle_time |->
                              get_sector_params(sector_key, next_level).cycle_time]]
         IN  IF settled.balance < cost
             THEN HttpError(state, "Insufficient BSS.")
             ELSE HttpOk(new_state,
                         [new_level |-> next_level, new_balance |-> new_state.balance],
                         TRUE)

\* mutant: an upgrade restarts the cycle of every owned sector
upgrade_sector_endpoint_restarts_all(state, sector_key, current_time) ==
    IF sector_key \notin DOMAIN state.industries
    THEN HttpError(state, "Invalid sector key.")
    ELSE LET sector_data == state.industries[sector_key]
             next_level == sector_data.level + 1
             cost == get_sector_params(sector_key, next_level).cost
             new_state ==
                 [state EXCEPT
                     !.balance = @ - cost,
                     !.industries =
                         [k \in DOMAIN state.industries |->
                             IF k = sector_key
                             THEN [level |-> next_level,
                                   last_collect |-> current_time,
                                   current_cycle_time |->
                                       get_sector_params(sector_key, next_level).cycle_time]
                             ELSE IF state.industries[k].level > 0
                             THEN [state.industries[k] EXCEPT
                                      !.last_collect = current_time]
                             ELSE state.industries[k]]]
         IN  IF state.balance < cost
             THEN HttpError(state, "Insufficient BSS.")
             ELSE HttpOk(new_state,
                         [new_level |-> next_level, new_balance |-> new_state.balance],
                         TRUE)

upgrade_sector_endpoint(state, sector_key, current_time) ==
    IF sector_key \notin DOMAIN state.industries
    THEN HttpError(state, "Invalid sector key.")
    ELSE LET sector_data == state.industries[sector_key]
             current_level == sector_data.level
             next_level == current_level + 1
             params == get_sector_params(sector_key, next_level)
             cost == params.cost
             new_state ==
                 [state EXCEPT
                     !.balance = @ - cost,
                     !.industries[sector_key] =
                         [level |-> next_level,
                          last_collect |-> current_time,
                          current_cycle_time |->
                              get_sector_params(sector_key, next_level).cycle_time]]
         IN  IF state.balance < cost
             \* (the detail is a Russian sentence: not enough BSS to buy or upgrade)
             THEN HttpError(state, "Insufficient BSS.")
             ELSE HttpOk(new_state,
                         [new_level |-> next_level, new_balance |-> new_state.balance],
                         TRUE)

\* calculate_income_and_update_state, for one sector: the fields it adds
IncomeFields(sector_key, sector_data, current_time) ==
    LET params == get_sector_params(sector_key, sector_data.level)
        cycle_time == params.cycle_time
        elapsed == current_time - sector_data.last_collect
    IN  IF sector_data.level > 0 /\ cycle_time > 0
        THEN IF sector_data.last_collect > 0
             THEN [income_to_collect |-> TruncDiv(elapsed, cycle_time) * params.income,
                   remaining_time |-> cycle_time - (elapsed % cycle_time)]
             ELSE [income_to_collect |-> 0, remaining_time |-> cycle_time]
        ELSE [none |-> TRUE]

\* mutant: the view shows the price that was paid for the current level
SectorView_current_cost(sector_key, sector_data, current_time) ==
    LET current_level == sector_data.level
        current_params == get_sector_params(sector_key, Max(1, current_level))
    IN  [level |-> current_level,
         last_collect |-> sector_data.last_collect,
         calc |-> IncomeFields(sector_key, sector_data, current_time),
         income |-> current_params.income,
         cost |-> current_params.cost,
         current_cycle_time |->
             IF current_level > 0 THEN current_params.cycle_time
             ELSE INDUSTRIES_CONFIG[sector_key].base_cycle_time]

\* load_state_endpoint: the view of one sector in the response
SectorView(sector_key, sector_data, current_time) ==
    LET current_level == sector_data.level
        current_params == get_sector_params(sector_key, Max(1, current_level))
        next_params == get_sector_params(sector_key, Max(1, current_level + 1))
    IN  [level |-> current_level,
         last_collect |-> sector_data.last_collect,
         calc |-> IncomeFields(sector_key, sector_data, current_time),
         income |-> current_params.income,
         cost |-> next_params.cost,
         current_cycle_time |->
             IF current_level > 0 THEN current_params.cycle_time
             ELSE INDUSTRIES_CONFIG[sector_key].base_cycle_time]

\* mutant: the ledger is saved once the income to collect is computed
load_state_endpoint_saves(state, current_time) ==
    LET viewed ==
            [state EXCEPT !.industries =
                [key \in DOMAIN state.industries |->
                    SectorView(key, state.industries[key], current_time)]]
    IN  HttpOk(viewed,
               [balance |-> viewed.balance, industries |-> viewed.industries],
               TRUE)

\* The handler adds the fields of the view to the sectors of the loaded copy,
\* returns the copy and does not save it.
load_state_endpoint(state, current_time) ==
    LET viewed ==
            [state EXCEPT !.industries =
                [key \in DOMAIN state.industries |->
                    SectorView(key, state.industries[key], current_time)]]
    IN  HttpOk(viewed,
               [balance |-> viewed.balance, industries |-> viewed.industries],
               FALSE)

(* ------------------------------ src/bot.py ---------------------------- *)

INDUSTRIES ==
    [ transport      |-> [base_income |-> 1,  base_cost |-> 10],
      tourism        |-> [base_income |-> 2,  base_cost |-> 20],
      ecology        |-> [base_income |-> 3,  base_cost |-> 40],
      infrastructure |-> [base_income |-> 5,  base_cost |-> 100],
      international  |-> [base_income |-> 10, base_cost |-> 200],
      air_quality    |-> [base_income |-> 15, base_cost |-> 400] ]

\* an industry key as the pieces "_" separates
KeyWords ==
    [ transport      |-> <<"transport">>,
      tourism        |-> <<"tourism">>,
      ecology        |-> <<"ecology">>,
      infrastructure |-> <<"infrastructure">>,
      international  |-> <<"international">>,
      air_quality    |-> <<"air", "quality">> ]

\* f"{prefix}_{key}", as query.data.split("_") sees it
CallbackData(prefix, key) == <<prefix>> \o KeyWords[key]

\* query.data.split("_")[1]
SplitKey(query_data) == query_data[2]

\* The file players.json is <<>> (no entry for the user) or <<player>>.
get_player(data) ==
    IF data = <<>>
    THEN [balance |-> 100,
          industries |-> [k \in DOMAIN INDUSTRIES |-> [level |-> 1, last_collect |-> 0]]]
    ELSE data[1]

\* int(elapsed // 10): floor division
BotCycles(elapsed) == elapsed \div 10

\* handle_industry: the text it shows (or the KeyError of player["industries"][key])
handle_industry(data, query_data, current_time) ==
    LET player == get_player(data)
        key == SplitKey(query_data)
    IN  IF key \notin DOMAIN INDUSTRIES
        THEN [raised |-> "KeyError", key |-> key]
        ELSE LET industry == player.industries[key]
                 elapsed == current_time - industry.last_collect
             IN  [raised |-> "", key |-> key,
                  level |-> industry.level,
                  income |-> INDUSTRIES[key].base_income * industry.level
                                * BotCycles(elapsed),
                  balance |-> player.balance]

\* collect: time1 is the clock read for elapsed, time2 the one stored.  The
\* result: the exception raised, the answer, the income collected, the
\* content of the file after the handler and whether save_data ran.
collect(data, query_data, time1, time2) ==
    LET player == get_player(data)
        key == SplitKey(query_data)
    IN  IF key \notin DOMAIN INDUSTRIES
        THEN [raised |-> "KeyError", answer |-> "", amount |-> 0,
              data |-> data, save |-> FALSE]
        ELSE LET industry == player.industries[key]
                 elapsed == time1 - industry.last_collect
                 income == INDUSTRIES[key].base_income * industry.level
                               * BotCycles(elapsed)
                 new_player ==
                     [player EXCEPT !.balance = @ + income,
                                    !.industries[key].last_collect = time2]
             IN  IF income > 0
                 THEN [raised |-> "", answer |-> "collected", amount |-> income,
                       data |-> <<new_player>>, save |-> TRUE]
                 ELSE [raised |-> "", answer |-> "nothing to collect", amount |-> 0,
                       data |-> data, save |-> FALSE]

upgrade(data, query_data) ==
    LET player == get_player(data)
        key == SplitKey(query_data)
    IN  IF key \notin DOMAIN INDUSTRIES
        THEN [raised |-> "KeyError", answer |-> "", amount |-> 0,
              data |-> data, save |-> FALSE]
        ELSE LET industry == player.industries[key]
                 cost == INDUSTRIES[key].base_cost * industry.level
                 new_player ==
                     [player EXCEPT !.balance = @ - cost,
                                    !.industries[key].level = @ + 1]
             IN  IF player.balance >= cost
                 THEN [raised |-> "", answer |-> "level raised", amount |-> cost,
                       data |-> <<new_player>>, save |-> TRUE]
                 ELSE [raised |-> "", answer |-> "not enough BSS", amount |-> 0,
                       data |-> data, save |-> FALSE]

(* ------------------------------ the state ----------------------------- *)
(* program  "api" or "bot": which of the two programs runs                 *)
(* db       api.py: a Firestore client was initialised                     *)
(* now      the wall clock, time.time()                                    *)
(* store    api.py: the player's Firestore document                        *)
(* pc, req, loaded, res                                                    *)
(*          api.py, per request slot: the step it is at, the request and   *)
(*          the time it sampled, the copy load_player_state returned, the  *)
(*          response                                                       *)
(* players  bot.py: the user's entry of players.json                       *)
(* botOut   bot.py: what the last handler answered                         *)
(* hist     bookkeeping of what was reported to the clients: successful    *)
(*          upgrades per sector (ups), collected amounts minus paid costs  *)
(*          (net), and per sector the last_collect at its last level       *)
(*          change (since) with the income credited from then on           *)
(*          (credited), and the API request answered last with its status  *)
(*          (last)                                                         *)
(* nreq     number of requests / updates so far                            *)
(* calc     the price list: a sector and a level, the cost load_state      *)
(*          shows for it, what two upgrades in a row from that level are   *)
(*          charged, and the level and the cycle times they leave          *)

Kinds == {"load_state", "collect_income", "collect_all_income", "upgrade_sector"}

NoReq == [kind |-> "none", user_id |-> UserId, sector_key |-> "", current_time |-> 0]

NoRes == [code |-> 0, detail |-> "", body |-> [none |-> TRUE]]

\* no price is asked for
NoCalc ==
    [key |-> "", level |-> 0, charged |-> FALSE, cost |-> 0, next_cost |-> 0,
     shown |-> 0, new_level |-> 0, cycle_time |-> 0, next_cycle_time |-> 0]

HistInit ==
    [ups |-> [k \in ConfigKeys |-> 0],
     net |-> 0,
     since |-> [k \in ConfigKeys |-> 0],
     credited |-> [k \in ConfigKeys |-> 0],
     last |-> [kind |-> "none", sector_key |-> "", current_time |-> 0, code |-> 0]]

InitWith(prog, d) ==
    /\ program = prog
    /\ db = d
    /\ now = StartTime
    /\ store = NoDoc
    /\ pc = [p \in Procs |-> "idle"]
    /\ req = [p \in Procs |-> NoReq]
    /\ loaded = [p \in Procs |-> <<>>]
    /\ res = [p \in Procs |-> NoRes]
    /\ players = <<>>
    /\ botOut = [handler |-> "none"]
    /\ hist = HistInit
    /\ nreq = 0

Init == \E prog \in {"api", "bot"} : InitWith(prog, TRUE) /\ calc = NoCalc

(* ------------------------------ the clock ----------------------------- *)

\* time passes
Tick(tmax) ==
    /\ now < tmax
    /\ now' = now + 1
    /\ UNCHANGED <<calc, program, db, store, pc, req, loaded, res, players, botOut, hist, nreq>>

\* the wall clock is set (an NTP step, a worker whose clock differs): forward
\* to MaxSkewTime or back to StartTime
ClockJump ==
    /\ \E t \in {StartTime, MaxSkewTime} : t # now /\ now' = t
    /\ UNCHANGED <<calc, program, db, store, pc, req, loaded, res, players, botOut, hist, nreq>>

(* --------------------------- api.py: the steps ------------------------ *)

\* a handler starts: current_time = time.time().  The request slots are
\* interchangeable: a request takes the first free one.
Request(p, limit) ==
    /\ program = "api"
    /\ pc[p] = "idle"
    /\ \A q \in Procs : q < p => pc[q] # "idle"
    /\ nreq < limit
    /\ \E kind \in Kinds :
       \E key \in (IF kind \in {"collect_income", "upgrade_sector"}
                   THEN RequestKeys ELSE {""}) :
          req' = [req EXCEPT ![p] = [kind |-> kind, user_id |-> UserId,
                                     sector_key |-> key, current_time |-> now]]
    /\ pc' = [pc EXCEPT ![p] = "load"]
    /\ loaded' = [loaded EXCEPT ![p] = <<>>]
    /\ res' = [res EXCEPT ![p] = NoRes]
    /\ nreq' = nreq + 1
    /\ UNCHANGED <<calc, program, db, now, store, players, botOut, hist>>

\* load_player_state up to doc_ref.get(): what it returns, or <<>> when the
\* document is absent and has to be created
load_player_state(doc, user_id) ==
    IF ~db THEN <<get_initial_player_state(user_id)>>
    ELSE IF doc # NoDoc THEN <<LoadedState(doc[1])>>
    ELSE <<>>

LoadGet(p) ==
    /\ pc[p] = "load"
    /\ loaded' = [loaded EXCEPT ![p] = load_player_state(store, req[p].user_id)]
    /\ pc' = [pc EXCEPT ![p] = IF loaded'[p] = <<>> THEN "create" ELSE "handle"]
    /\ UNCHANGED <<calc, program, db, now, store, req, res, players, botOut, hist, nreq>>

\* load_player_state, the else branch: doc_ref.set(initial_state.model_dump())
LoadCreate(p) ==
    /\ pc[p] = "create"
    /\ store' = <<get_initial_player_state(req[p].user_id)>>
    /\ loaded' = [loaded EXCEPT ![p] = <<get_initial_player_state(req[p].user_id)>>]
    /\ pc' = [pc EXCEPT ![p] = "handle"]
    /\ hist' = [hist EXCEPT !.since = HistInit.since, !.credited = HistInit.credited]
    /\ UNCHANGED <<calc, program, db, now, req, res, players, botOut, nreq>>

\* save_player_state: the document after it
save_player_state(doc, state) ==
    IF ~db THEN doc ELSE <<state>>

\* the handler returns (or raises): r is its computation on the loaded copy
Respond(p, r) ==
    /\ store' = IF r.save THEN save_player_state(store, r.state) ELSE store
    /\ res' = [res EXCEPT ![p] = [code |-> r.code, detail |-> r.detail, body |-> r.body]]
    /\ pc' = [pc EXCEPT ![p] = "idle"]
    /\ UNCHANGED <<calc, program, db, now, req, loaded, players, botOut, nreq>>

\* request p as hist.last records it once it is answered with status code
Last(p, code) ==
    [kind |-> req[p].kind, sector_key |-> req[p].sector_key,
     current_time |-> req[p].current_time, code |-> code]

LoadState(p) ==
    /\ pc[p] = "handle"
    /\ req[p].kind = "load_state"
    /\ LET r == load_state_endpoint(loaded[p][1], req[p].current_time)
       IN  /\ Respond(p, r)
           /\ hist' = [hist EXCEPT !.last = Last(p, r.code)]

CollectIncome(p) ==
    /\ pc[p] = "handle"
    /\ req[p].kind = "collect_income"
    /\ LET key == req[p].sector_key
           r == collect_income_endpoint(loaded[p][1], key, req[p].current_time)
       IN  /\ Respond(p, r)
           /\ hist' = IF r.code = 200
                      THEN [hist EXCEPT !.net = @ + r.body.collected_income,
                                        !.credited[key] = @ + r.body.collected_income,
                                        !.last = Last(p, r.code)]
                      ELSE [hist EXCEPT !.last = Last(p, r.code)]

CollectAllIncome(p) ==
    /\ pc[p] = "handle"
    /\ req[p].kind = "collect_all_income"
    /\ LET r == collect_all_income_endpoint(loaded[p][1], req[p].current_time)
       IN  /\ Respond(p, r)
           /\ hist' = [hist EXCEPT
                          !.net = @ + r.body.total_collected_income,
                          !.credited = [k \in ConfigKeys |->
                              @[k] + SectorIncome(loaded[p][1], k, req[p].current_time)],
                          !.last = Last(p, r.code)]

UpgradeSector(p) ==
    /\ pc[p] = "handle"
    /\ req[p].kind = "upgrade_sector"
    /\ LET key == req[p].sector_key
           r == upgrade_sector_endpoint(loaded[p][1], key, req[p].current_time)
       IN  /\ Respond(p, r)
           /\ hist' = IF r.code = 200
                      THEN [hist EXCEPT
                               !.ups[key] = @ + 1,
                               !.net = @ - get_sector_params(key,
                                   loaded[p][1].industries[key].level + 1).cost,
                               !.since[key] = r.state.industries[key].last_collect,
                               !.credited[key] = 0,
                               !.last = Last(p, r.code)]
                      ELSE [hist EXCEPT !.last = Last(p, r.code)]

(* --------------------------- bot.py: the updates ---------------------- *)
(* The bot handles one update at a time, and a handler does not await      *)
(* between load_data and save_data: each update is one step.  collect and  *)
(* upgrade end by showing the industry again (handle_industry).            *)

BotUpdate(out, limit) ==
    /\ program = "bot"
    /\ nreq < limit
    /\ nreq' = nreq + 1
    /\ botOut' = out
    /\ UNCHANGED <<calc, program, db, store, pc, req, loaded, res>>

\* start and back_main: get_player, save_data, the main menu
BotStart(limit) ==
    /\ BotUpdate([handler |-> "start", balance |-> get_player(players).balance], limit)
    /\ players' = <<get_player(players)>>
    /\ UNCHANGED <<now, hist>>

BotHandleIndustry(limit) ==
    \E key \in BotKeys :
        /\ BotUpdate([handler |-> "handle_industry", pressed |-> key,
                      view |-> handle_industry(players, CallbackData("industry", key), now)],
                     limit)
        /\ UNCHANGED <<now, players, hist>>

\* the second time.time() of collect is not before the first
BotCollect(limit, tmax) ==
    \E key \in BotKeys, time2 \in {now, now + 1} :
        LET r == collect(players, CallbackData("collect", key), now, time2)
        IN  /\ time2 <= tmax
            /\ BotUpdate([handler |-> "collect", pressed |-> key,
                          raised |-> r.raised, answer |-> r.answer, amount |-> r.amount,
                          view |-> handle_industry(r.data, CallbackData("collect", key),
                                                   time2)],
                         limit)
            /\ players' = IF r.save THEN r.data ELSE players
            /\ now' = time2
            /\ hist' = IF r.save
                       THEN [hist EXCEPT !.net = @ + r.amount,
                                         !.credited[SplitKey(CallbackData("collect", key))]
                                             = @ + r.amount]
                       ELSE hist

BotUpgrade(limit) ==
    \E key \in BotKeys :
        LET r == upgrade(players, CallbackData("upgrade", key))
            k == SplitKey(CallbackData("upgrade", key))
        IN  /\ BotUpdate([handler |-> "upgrade", pressed |-> key,
                          raised |-> r.raised, answer |-> r.answer, amount |-> r.amount,
                          view |-> handle_industry(r.data, CallbackData("upgrade", key),
                                                   now)],
                         limit)
            /\ players' = IF r.save THEN r.data ELSE players
            /\ hist' = IF r.save
                       THEN [hist EXCEPT !.ups[k] = @ + 1,
                                         !.net = @ - r.amount,
                                         !.since[k] = r.data[1].industries[k].last_collect,
                                         !.credited[k] = 0]
                       ELSE hist
            /\ UNCHANGED now

(* ---------------------------- the price list -------------------------- *)
(* What load_state shows and what two upgrades in a row charge a player    *)
(* who can pay them, for every sector and level: the handlers are applied  *)
(* to a ledger that has the sector calc.key at the level calc.level.       *)

\* a sector of the program and a level it can have
InitPrices ==
    /\ \E prog \in {"api", "bot"} : InitWith(prog, TRUE)
    /\ \E key \in (IF program = "api" THEN ConfigKeys ELSE DOMAIN INDUSTRIES) :
       \E level \in (IF program = "api" /\ key # "chorsu_market" THEN 0 ELSE 1)
                        ..MaxCostLevel :
          calc = [NoCalc EXCEPT !.key = key, !.level = level]

ApiPrices ==
    /\ program = "api"
    /\ ~calc.charged
    /\ LET key == calc.key
           state == [get_initial_player_state(UserId) EXCEPT
                        !.balance = RichBalance,
                        !.industries[key].level = calc.level]
           view == load_state_endpoint(state, now)
           first == upgrade_sector_endpoint(state, key, now)
           second == upgrade_sector_endpoint(first.state, key, now)
       IN  calc' = [calc EXCEPT
                       !.charged = first.code = 200 /\ second.code = 200,
                       !.cost = state.balance - first.state.balance,
                       !.next_cost = first.state.balance - second.state.balance,
                       !.shown = view.body.industries[key].cost,
                       !.new_level = first.state.industries[key].level,
                       !.cycle_time = first.state.industries[key].current_cycle_time,
                       !.next_cycle_time =
                           second.state.industries[key].current_cycle_time]
    /\ UNCHANGED <<program, db, now, store, pc, req, loaded, res, players, botOut,
                   hist, nreq>>

BotPrices ==
    /\ program = "bot"
    /\ ~calc.charged
    /\ LET key == calc.key
           player == [get_player(<<>>) EXCEPT
                         !.balance = RichBalance,
                         !.industries[key].level = calc.level]
           first == upgrade(<<player>>, CallbackData("upgrade", key))
           second == upgrade(first.data, CallbackData("upgrade", key))
       IN  /\ first.save /\ second.save
           \* (handle_industry shows no cost, and every cycle of bot.py is 10 s)
           /\ calc' = [calc EXCEPT !.charged = TRUE,
                                   !.cost = first.amount,
                                   !.next_cost = second.amount,
                                   !.new_level = first.data[1].industries[key].level,
                                   !.cycle_time = 10,
                                   !.next_cycle_time = 10]
    /\ UNCHANGED <<program, db, now, store, pc, req, loaded, res, players, botOut,
                   hist, nreq>>

(* --------------------------- specifications --------------------------- *)

ApiStep(p) ==
    \/ LoadGet(p)
    \/ LoadCreate(p)
    \/ LoadState(p)
    \/ CollectIncome(p)
    \/ CollectAllIncome(p)
    \/ UpgradeSector(p)

BotStep(limit, tmax) ==
    \/ BotStart(limit)
    \/ BotHandleIndustry(limit)
    \/ BotCollect(limit, tmax)
    \/ BotUpgrade(limit)

\* requests of several workers interleave; the clock never goes back
Next ==
    \/ Tick(MaxTime)
    \/ \E p \in Procs : Request(p, MaxRequests)
    \/ \E p \in Procs : ApiStep(p)
    \/ BotStep(MaxRequests, MaxTime)

Spec == Init /\ [][Next]_vars

\* a request starts only when no other is in progress
AllIdle == \A p \in Procs : pc[p] = "idle"

SeqRequest(p) == AllIdle /\ Request(p, MaxSeqRequests)

NextSeq ==
    \/ Tick(MaxSeqTime)
    \/ \E p \in Procs : SeqRequest(p)
    \/ \E p \in Procs : ApiStep(p)
    \/ BotStep(MaxSeqRequests, MaxSeqTime)

SpecSeq == Init /\ [][NextSeq]_vars

\* one request at a time, and the clock may be set forward and back
NextSkew ==
    \/ Tick(MaxTime)
    \/ ClockJump
    \/ \E p \in Procs : SeqRequest(p)
    \/ \E p \in Procs : ApiStep(p)
    \/ BotStep(MaxSeqRequests, MaxSkewTime)

SpecSkew == Init /\ [][NextSkew]_vars

\* api.py without a Firestore client (db = None): load_player_state returns
\* the initial ledger and save_player_state returns without writing
InitNoDb == InitWith("api", FALSE) /\ calc = NoCalc

NextNoDb ==
    \/ Tick(MaxSeqTime)
    \/ \E p \in Procs : SeqRequest(p)
    \/ \E p \in Procs : LoadGet(p)
    \/ \E p \in Procs : LoadState(p)
    \/ \E p \in Procs : CollectIncome(p)
    \/ \E p \in Procs : CollectAllIncome(p)
    \/ \E p \in Procs : UpgradeSector(p)

SpecNoDb == InitNoDb /\ [][NextNoDb]_vars

\* the price list of either program
NextCost ==
    \/ ApiPrices
    \/ BotPrices

SpecCost == InitPrices /\ [][NextCost]_vars

(* ------------------------------- claims ------------------------------- *)

\* request p has been answered
Answered(p) == pc[p] = "idle" /\ res[p].code # 0

\* p takes a step of its request
Steps(p) == pc'[p] # pc[p] /\ pc[p] # "idle"

\* the price list: what raising sector key from level costs
PriceOf(key, level) == get_sector_params(key, level + 1).cost

\* C1: two upgrade_sector requests for the same sector that both read the
\* same ledger (their loads came before either save), whose balance covers
\* the cost of one upgrade but not of two, end with exactly one reported
\* success and one insufficient-funds failure, and the balance is never < 0.
C1_ExactlyOneUpgradeSucceeds ==
    \A p, q \in Procs :
        ( /\ p # q
          /\ Answered(p) /\ Answered(q)
          /\ req[p].kind = "upgrade_sector" /\ req[q].kind = "upgrade_sector"
          /\ req[p].sector_key = req[q].sector_key
          /\ req[p].sector_key \in ConfigKeys
          /\ loaded[p] # <<>> /\ loaded[p] = loaded[q]
          /\ LET key == req[p].sector_key
                 balance == loaded[p][1].balance
                 level == loaded[p][1].industries[key].level
             IN  /\ balance >= PriceOf(key, level)
                 /\ balance < PriceOf(key, level) + PriceOf(key, level + 1) )
        => ( /\ (res[p].code = 200) # (res[q].code = 200)
             /\ store # NoDoc /\ store[1].balance >= 0 )

\* C2: every persisted balance is >= 0, whatever clock values the
\* operations observe.
C2_BalanceNeverNegative ==
    /\ store # NoDoc => store[1].balance >= 0
    /\ players # <<>> => players[1].balance >= 0

\* C3: no lost update: a handler saves the ledger it computed only if the
\* stored document is still the one it loaded.
C3_NoLostUpdate ==
    [][\A p \in Procs :
          (Steps(p) /\ pc[p] = "handle" /\ store' # store) => store = loaded[p]]_vars

\* C4: from one persisted ledger to the next written by a handler, no level
\* decreases, and an upgrade request that reports success raises the
\* persisted level of its sector by exactly 1; so for the bot's upgrade.
C4_LevelCountsUpgrades ==
    [][/\ \A p \in Procs :
            (Steps(p) /\ pc[p] = "handle")
            => \A k \in ConfigKeys :
                  /\ store'[1].industries[k].level >= store[1].industries[k].level
                  /\ store'[1].industries[k].level
                        = store[1].industries[k].level
                          + (IF hist'.ups[k] # hist.ups[k] THEN 1 ELSE 0)
       /\ (players # <<>> /\ nreq' # nreq)
            => \A k \in DOMAIN INDUSTRIES :
                  players'[1].industries[k].level
                      = players[1].industries[k].level
                        + (IF hist'.ups[k] # hist.ups[k] THEN 1 ELSE 0)]_vars

\* C5: under a clock that never goes back, a committed write does not lower
\* the persisted last_collect of a sector.  (Stated for the writes of
\* save_player_state by a request whose loaded copy is still the stored
\* document: the request sampled the clock before it loaded.)
C5_LastCollectMonotone ==
    [][\A p \in Procs :
          (Steps(p) /\ pc[p] = "handle" /\ store = loaded[p])
          => \A k \in ConfigKeys :
                store'[1].industries[k].last_collect
                    >= store[1].industries[k].last_collect]_vars

\* C6: with one request at a time, the persisted balance is the initial
\* balance plus the amounts reported as collected minus the prices of the
\* upgrades reported as successful.
C6_Conservation ==
    (store # NoDoc /\ AllIdle) => store[1].balance = 1000 + hist.net

C6_Witness ==
    /\ store # NoDoc /\ AllIdle
    /\ \E k \in ConfigKeys : hist.ups[k] > 0
    /\ \E k \in ConfigKeys : hist.credited[k] > 0

\* what one collect over the whole time from since to the persisted
\* last_collect credits at the sector's level
SingleCollect(k) ==
    LET sector_data == store[1].industries[k]
        config == INDUSTRIES_CONFIG[k]
    IN  config.base_income * sector_data.level
            * TruncDiv(sector_data.last_collect - hist.since[k],
                       CycleTime(config.base_cycle_time, sector_data.level))

BotSingleCollect(k) ==
    LET industry == players[1].industries[k]
    IN  INDUSTRIES[k].base_income * industry.level
            * ((industry.last_collect - hist.since[k]) \div 10)

\* C7 as stated: the income credited to a sector by the collects since its
\* level last changed equals what one collect over the whole time credits.
C7_AccrualAdditive ==
    /\ store # NoDoc =>
          \A k \in ConfigKeys :
              store[1].industries[k].level > 0 => hist.credited[k] = SingleCollect(k)
    /\ players # <<>> =>
          \A k \in DOMAIN INDUSTRIES : hist.credited[k] = BotSingleCollect(k)

\* C7 as amended: every collect restarts the cycle at the time of the
\* collect and drops the cycle in progress, so the income credited by
\* successive collects is at most what one collect over the whole time
\* credits (and never negative).
C7_AccrualAtMostSingle ==
    /\ store # NoDoc =>
          \A k \in ConfigKeys :
              store[1].industries[k].level > 0 =>
                  /\ hist.credited[k] >= 0
                  /\ hist.credited[k] <= SingleCollect(k)
    /\ players # <<>> =>
          \A k \in DOMAIN INDUSTRIES :
              /\ hist.credited[k] >= 0
              /\ hist.credited[k] <= BotSingleCollect(k)

\* two collects of a sector, the second of which dropped a cycle in progress
C7_Witness ==
    /\ store # NoDoc
    /\ \E k \in ConfigKeys :
          /\ hist.credited[k] >= 2 * INDUSTRIES_CONFIG[k].base_income
          /\ hist.credited[k] < SingleCollect(k)

\* C8: an upgrade_sector request that loads a ledger whose balance is below
\* the price of the upgrade is answered with an error, and neither its load
\* nor its handler writes: the persisted ledger stays as it was.  So for the
\* bot's upgrade.
C8_FailedUpgradeCommitsNothing ==
    [][/\ \A p \in Procs :
            ( /\ Steps(p)
              /\ req[p].kind = "upgrade_sector"
              /\ req[p].sector_key \in ConfigKeys
              /\ pc[p] \in {"load", "handle"}
              /\ pc[p] = "handle" =>
                    loaded[p][1].balance
                        < PriceOf(req[p].sector_key,
                                  loaded[p][1].industries[req[p].sector_key].level) )
            => /\ store' = store
               /\ pc[p] = "handle" => res'[p].code = 400
       /\ ( /\ program = "bot" /\ nreq' # nreq
            /\ botOut'.handler = "upgrade"
            /\ LET k == botOut'.pressed
                   player == get_player(players)
               IN  player.balance < INDUSTRIES[k].base_cost * player.industries[k].level )
          => /\ players' = players
             /\ botOut'.answer # "level raised"]_vars

\* an upgrade of an existing player was refused for lack of funds
C8_Witness ==
    \E p \in Procs :
        /\ Answered(p)
        /\ req[p].kind = "upgrade_sector"
        /\ req[p].sector_key \in ConfigKeys
        /\ res[p].code = 400
        /\ loaded[p][1].balance < 1000
        /\ loaded[p][1].balance
              < PriceOf(req[p].sector_key, loaded[p][1].industries[req[p].sector_key].level)

\* p is a collect_income or upgrade_sector request with a key that is not configured
UnknownSector(p) ==
    /\ req[p].kind \in {"collect_income", "upgrade_sector"}
    /\ req[p].sector_key \notin ConfigKeys

\* C9 as stated: a request naming an unknown sector fails with an error and
\* no step of it changes the store, also when the player did not exist.
C9_UnknownSectorLeavesStore ==
    [][\A p \in Procs :
          (Steps(p) /\ UnknownSector(p))
          => /\ store' = store
             /\ pc[p] = "handle" => res'[p].code = 400]_vars

\* C9 as amended: a request naming an unknown sector fails with an error and
\* its handler writes nothing; the key is validated after load_player_state,
\* whose only write is the initial ledger when its read found no document.
C9_UnknownSectorOnlyCreates ==
    [][\A p \in Procs :
          (Steps(p) /\ UnknownSector(p))
          => /\ pc[p] = "load" => store' = store
             /\ pc[p] = "create" =>
                   /\ store'[1].balance = 1000
                   /\ \A k \in ConfigKeys :
                         /\ store'[1].industries[k].level
                               = (IF k = "chorsu_market" THEN 1 ELSE 0)
                         /\ store'[1].industries[k].last_collect = 0
             /\ pc[p] = "handle" => (store' = store /\ res'[p].code = 400)]_vars

\* a request naming an unknown sector was refused after it created the ledger
C9_Witness ==
    \E p \in Procs :
        /\ Answered(p)
        /\ UnknownSector(p)
        /\ res[p].code = 400
        /\ nreq = 1
        /\ store # NoDoc

\* C10: upgrade_sector succeeds exactly when the loaded balance is at least
\* the price for the stored level of the named sector; on success the
\* persisted balance is the loaded balance minus that price and the level
\* is the loaded level plus 1.  The request carries no price.
C10_UpgradeChargesPrice ==
    [][\A p \in Procs :
          ( /\ Steps(p) /\ pc[p] = "handle"
            /\ req[p].kind = "upgrade_sector"
            /\ req[p].sector_key \in ConfigKeys )
          => LET key == req[p].sector_key
                 balance == loaded[p][1].balance
                 level == loaded[p][1].industries[key].level
                 cost == PriceOf(key, level)
             IN  /\ DOMAIN req[p] = {"kind", "user_id", "sector_key", "current_time"}
                 /\ res'[p].code = (IF balance >= cost THEN 200 ELSE 400)
                 /\ balance >= cost =>
                       /\ store' # NoDoc
                       /\ store'[1].balance = balance - cost
                       /\ store'[1].industries[key].level = level + 1
                       /\ res'[p].body = [new_level |-> level + 1,
                                          new_balance |-> balance - cost]]_vars

\* an upgrade succeeded with a balance equal to the price
C10_Witness ==
    \E p \in Procs :
        /\ Answered(p)
        /\ req[p].kind = "upgrade_sector"
        /\ req[p].sector_key \in ConfigKeys
        /\ res[p].code = 200
        /\ loaded[p][1].balance
              = PriceOf(req[p].sector_key, loaded[p][1].industries[req[p].sector_key].level)

\* C11: the price of an upgrade is strictly increasing in the level: of two
\* upgrades of a sector in a row, from any level, the second is charged more
\* than the first (api.py and bot.py).
C11_CostStrictlyIncreasing ==
    calc.charged
    => /\ calc.cost > 0
       /\ calc.next_cost > calc.cost

\* the two prices of the dearest sector of api.py at a high level, and two
\* prices of bot.py
C11_Witness ==
    \/ /\ program = "api" /\ calc.charged
       /\ calc.key = "innovation" /\ calc.level = 97
       /\ calc.cost = 77612040 /\ calc.next_cost = 78803005
    \/ /\ program = "bot" /\ calc.charged
       /\ calc.key = "tourism" /\ calc.level = 50
       /\ calc.cost = 1000 /\ calc.next_cost = 1020

\* the income of the sectors of ledger state for elapsed seconds each
WindowIncome(state, keys, elapsed) ==
    SumOver([k \in ConfigKeys |->
                IF k \in keys /\ state.industries[k].level > 0
                THEN get_sector_params(k, state.industries[k].level).income
                       * (elapsed \div get_sector_params(k, state.industries[k].level).cycle_time)
                ELSE 0],
            ConfigKeys)

\* C12: the income a collect credits is capped by the offline window: when
\* more than OfflineWindow seconds have elapsed since last_collect for every
\* sector it collects from, collect_income and collect_all_income credit the
\* income of exactly OfflineWindow seconds; so for the first collect of a
\* new player.
C12_IncomeCappedByWindow ==
    [][\A p \in Procs :
          (Steps(p) /\ pc[p] = "handle" /\ res'[p].code = 200)
          => LET state == loaded[p][1]
                 late(k) == req[p].current_time - state.industries[k].last_collect
                                > OfflineWindow
             IN  /\ ( /\ req[p].kind = "collect_income"
                      /\ late(req[p].sector_key) )
                    => res'[p].body.collected_income
                           = WindowIncome(state, {req[p].sector_key}, OfflineWindow)
                 /\ ( /\ req[p].kind = "collect_all_income"
                      /\ \A k \in ConfigKeys : state.industries[k].level > 0 => late(k) )
                    => res'[p].body.total_collected_income
                           = WindowIncome(state, ConfigKeys, OfflineWindow)]_vars

\* C13: a collect that observes a clock value earlier than the stored
\* last_collect accrues nothing: collect_income and collect_all_income never
\* report a negative amount and never lower the persisted balance.
C13_NegativeElapsedClampsToZero ==
    [][\A p \in Procs :
          ( /\ Steps(p) /\ pc[p] = "handle"
            /\ req[p].kind \in {"collect_income", "collect_all_income"} )
          => /\ store'[1].balance >= store[1].balance
             /\ (req[p].kind = "collect_income" /\ res'[p].code = 200)
                   => res'[p].body.collected_income >= 0
             /\ req[p].kind = "collect_all_income"
                   => res'[p].body.total_collected_income >= 0]_vars

\* C14: the first load of an unknown player persists a ledger with the
\* initial balance, every sector at level 0 and the last-settled time of
\* every sector equal to the time of creation (api.py: the create of
\* load_player_state; bot.py: get_player followed by save_data).
C14_InitialLedger ==
    [][/\ \A p \in Procs :
            (Steps(p) /\ pc[p] = "create" /\ store = NoDoc)
            => /\ store' # NoDoc
               /\ store'[1].balance = 1000
               /\ \A k \in ConfigKeys :
                     /\ store'[1].industries[k].level = 0
                     /\ store'[1].industries[k].last_collect = req[p].current_time
       /\ (players = <<>> /\ players' # <<>>)
            => /\ players'[1].balance = 100
               /\ \A k \in DOMAIN INDUSTRIES :
                     /\ players'[1].industries[k].level = 0
                     /\ players'[1].industries[k].last_collect = now']_vars

\* C15: the creation of the ledger is create-if-absent: a request that
\* found the ledger absent writes the initial ledger only if the document is
\* still absent; it never changes a ledger that another request has
\* meanwhile created and modified.
C15_CreateIfAbsent ==
    [][\A p \in Procs :
          (Steps(p) /\ pc[p] = "create")
          => \/ store = NoDoc /\ store' # NoDoc
             \/ store' = store]_vars

\* the handler of p runs a collect that repeats the request answered last:
\* the same endpoint, the same sector and the same observed clock value
SecondCollect(p) ==
    /\ Steps(p) /\ pc[p] = "handle"
    /\ req[p].kind \in {"collect_income", "collect_all_income"}
    /\ hist.last.kind = req[p].kind
    /\ hist.last.sector_key = req[p].sector_key
    /\ hist.last.current_time = req[p].current_time

\* C16 as stated: the second of two collects with the clock unchanged
\* answers with a collected amount of 0 and leaves the persisted ledger as
\* it is.
C16_SecondCollectYieldsZero ==
    [][\A p \in Procs :
          SecondCollect(p)
          => /\ store' = store
             /\ res'[p].code = 200
             /\ req[p].kind = "collect_income" => res'[p].body.collected_income = 0
             /\ req[p].kind = "collect_all_income"
                   => res'[p].body.total_collected_income = 0]_vars

\* C16 as amended: the second of two collects with the clock unchanged
\* credits nothing and leaves the persisted ledger as it is;
\* collect_all_income answers with a total of 0, collect_income answers with
\* the error 400 (income not ready, or sector not owned) and no amount.
C16_SecondCollectCreditsNothing ==
    [][\A p \in Procs :
          SecondCollect(p)
          => /\ store' = store
             /\ hist'.net = hist.net
             /\ req[p].kind = "collect_income"
                   => /\ res'[p].code = 400
                      /\ res'[p].detail \in {"Income is not ready yet.",
                                              "Sector not owned or invalid."}
                      /\ DOMAIN res'[p].body = {"error"}
             /\ req[p].kind = "collect_all_income"
                   => /\ res'[p].code = 200
                      /\ res'[p].body.total_collected_income = 0
                      /\ res'[p].body.new_balance = store[1].balance]_vars

\* a collect_income of chorsu_market was refused as not ready at the clock
\* value at which the request before it had collected the sector's income
C16_Witness ==
    \E p \in Procs :
        /\ Answered(p) /\ AllIdle
        /\ nreq = 2
        /\ req[p].kind = "collect_income" /\ req[p].sector_key = "chorsu_market"
        /\ res[p].code = 400 /\ res[p].detail = "Income is not ready yet."
        /\ hist.last = Last(p, 400)
        /\ hist.ups["chorsu_market"] = 0
        /\ hist.credited["chorsu_market"] > 0
        /\ store # NoDoc
        /\ store[1].industries["chorsu_market"].last_collect = req[p].current_time

\* C17: load_state on an existing player is read-only: no step of a
\* load_state request changes an existing document, the income to collect
\* appears in the response only, and the one write of a load_state request
\* is the initial ledger when the player does not exist.
C17_LoadStateReadOnly ==
    [][\A p \in Procs :
          (Steps(p) /\ req[p].kind = "load_state")
          => /\ store # NoDoc => store' = store
             /\ pc[p] = "create"
                   => store = NoDoc /\ store' = <<get_initial_player_state(UserId)>>
             /\ pc[p] = "handle"
                   => /\ res'[p].code = 200
                      /\ res'[p].body.balance = store[1].balance
                      /\ \A k \in ConfigKeys :
                            /\ res'[p].body.industries[k].level
                                  = store[1].industries[k].level
                            /\ DOMAIN store'[1].industries[k]
                                  = {"level", "last_collect", "current_cycle_time"}]_vars

\* load_state was answered for an existing player with income to collect
\* from chorsu_market, and the ledger still has the balance and the
\* last_collect it had
C17_Witness ==
    \E p \in Procs :
        /\ Answered(p) /\ AllIdle
        /\ req[p].kind = "load_state"
        /\ hist.last = Last(p, 200)
        /\ res[p].body.industries["chorsu_market"].calc.income_to_collect > 0
        /\ store = loaded[p]
        /\ store[1].industries["chorsu_market"].last_collect > 0
        /\ store[1].industries["chorsu_market"].last_collect < req[p].current_time
        /\ store[1].balance = 1000 + hist.net

\* the income the sectors of ledger state have accrued at current_time
Accrued(state, current_time) ==
    SumOver([k \in ConfigKeys |-> SectorIncome(state, k, current_time)], ConfigKeys)

\* the handler of p runs an upgrade of a configured sector
UpgradeStep(p) ==
    /\ Steps(p) /\ pc[p] = "handle"
    /\ req[p].kind = "upgrade_sector"
    /\ req[p].sector_key \in ConfigKeys

\* C18 as stated: an upgrade settles the accrued income first: it succeeds
\* whenever the stored balance plus the income accrued up to now covers the
\* price, and then the persisted balance is the stored balance plus the
\* accrued income minus the price.
C18_UpgradeSettlesFirst ==
    [][\A p \in Procs :
          UpgradeStep(p)
          => LET state == loaded[p][1]
                 key == req[p].sector_key
                 cost == PriceOf(key, state.industries[key].level)
                 settled == state.balance + Accrued(state, req[p].current_time)
             IN  /\ settled >= cost => res'[p].code = 200
                 /\ res'[p].code = 200 => store'[1].balance = settled - cost]_vars

\* C18 as amended: an upgrade settles nothing: the price is compared with
\* the stored balance alone; on success the persisted balance is the stored
\* balance minus the price, the upgraded sector restarts its cycle at the
\* time of the upgrade, so that the income it had accrued is forfeited, and
\* the other sectors keep their last_collect.  bot.py upgrade compares and
\* charges in the same way and leaves every last_collect as it is.
C18_UpgradeSettlesNothing ==
    [][/\ \A p \in Procs :
            UpgradeStep(p)
            => LET state == loaded[p][1]
                   key == req[p].sector_key
                   cost == PriceOf(key, state.industries[key].level)
               IN  /\ state.balance < cost => (res'[p].code = 400 /\ store' = store)
                   /\ state.balance >= cost
                         => /\ res'[p].code = 200
                            /\ store'[1].balance = state.balance - cost
                            /\ store'[1].industries[key].last_collect
                                  = req[p].current_time
                            /\ SectorIncome(store'[1], key, req[p].current_time) = 0
                            /\ \A k \in ConfigKeys \ {key} :
                                  store'[1].industries[k] = state.industries[k]
       /\ (program = "bot" /\ nreq' # nreq /\ botOut'.handler = "upgrade"
              /\ botOut'.raised = "")
            => LET player == get_player(players)
                   k == botOut'.pressed
                   cost == INDUSTRIES[k].base_cost * player.industries[k].level
               IN  IF player.balance >= cost
                   THEN /\ players'[1].balance = player.balance - cost
                        /\ \A i \in DOMAIN INDUSTRIES :
                              players'[1].industries[i].last_collect
                                  = player.industries[i].last_collect
                   ELSE players' = players]_vars

\* an upgrade succeeded on a ledger whose sector had income to collect, and
\* the persisted balance is the loaded balance minus the price
C18_Witness ==
    \E p \in Procs :
        /\ Answered(p) /\ AllIdle
        /\ req[p].kind = "upgrade_sector" /\ req[p].sector_key = "chorsu_market"
        /\ res[p].code = 200
        /\ hist.last = Last(p, 200)
        /\ SectorIncome(loaded[p][1], "chorsu_market", req[p].current_time) > 0
        /\ store # NoDoc
        /\ store[1].balance
              = loaded[p][1].balance
                  - PriceOf("chorsu_market", loaded[p][1].industries["chorsu_market"].level)
        /\ store[1].industries["chorsu_market"].last_collect = req[p].current_time

\* C19: without a database client every operation on the ledger answers
\* with a service error: collect_income, collect_all_income and
\* upgrade_sector never answer 200 with a new balance or level that was not
\* persisted.
C19_StoreUnavailableIsAnError ==
    \A p \in Procs :
        ( /\ ~db
          /\ Answered(p)
          /\ req[p].kind \in {"collect_income", "collect_all_income", "upgrade_sector"} )
        => res[p].code # 200

\* C20: the income of a sector is proportional to its level: a successful
\* collect_income on a sector at level L >= 1 credits
\* base_income * L * floor(elapsed / cycle_time(L)), and a sector at level 0
\* cannot be collected; bot.py collect credits
\* base_income * level * floor(elapsed / 10).
C20_IncomeProportionalToLevel ==
    [][/\ \A p \in Procs :
            ( /\ Steps(p) /\ pc[p] = "handle"
              /\ req[p].kind = "collect_income"
              /\ req[p].sector_key \in ConfigKeys )
            => LET key == req[p].sector_key
                   sector_data == loaded[p][1].industries[key]
                   config == INDUSTRIES_CONFIG[key]
                   L == sector_data.level
                   elapsed == req[p].current_time - sector_data.last_collect
               IN  /\ L = 0 => (res'[p].code = 400 /\ store' = store)
                   /\ res'[p].code = 200
                         => /\ L >= 1
                            /\ res'[p].body.collected_income
                                  = config.base_income * L
                                      * (elapsed \div CycleTime(config.base_cycle_time, L))
                            /\ store'[1].balance
                                  = loaded[p][1].balance + res'[p].body.collected_income
       /\ (program = "bot" /\ nreq' # nreq /\ botOut'.handler = "collect"
              /\ botOut'.answer = "collected")
            => LET player == get_player(players)
                   k == botOut'.pressed
               IN  botOut'.amount
                       = INDUSTRIES[k].base_income * player.industries[k].level
                           * ((now - player.industries[k].last_collect) \div 10)]_vars

\* a collect_income on chorsu_market at a level above 1 was credited, after a
\* collect of it at level 1
C20_Witness ==
    \E p \in Procs :
        /\ Answered(p) /\ AllIdle
        /\ req[p].kind = "collect_income" /\ req[p].sector_key = "chorsu_market"
        /\ res[p].code = 200
        /\ hist.last = Last(p, 200)
        /\ loaded[p][1].industries["chorsu_market"].level = 2
        /\ res[p].body.collected_income = 2
        /\ hist.credited["chorsu_market"] = 2
        /\ hist.net = 1 - 282 + 2

\* what collect_income credits for sector key of ledger state at
\* current_time: the amount of its response, 0 when it refuses
CollectPays(state, key, current_time) ==
    LET r == collect_income_endpoint(state, key, current_time)
    IN  IF r.code = 200 THEN r.body.collected_income ELSE 0

\* C21: what load_state reports is what collect pays: for every owned
\* sector, the income_to_collect of a load_state response equals the amount
\* collect_income credits for that sector on the same ledger at the same
\* clock value, and collect_income refuses exactly when it is 0; so for a
\* sector whose last_collect is 0.
C21_ReportedIsPaid ==
    [][\A p \in Procs :
          (Steps(p) /\ pc[p] = "handle" /\ req[p].kind = "load_state")
          => \A k \in ConfigKeys :
                loaded[p][1].industries[k].level > 0
                => LET reported == res'[p].body.industries[k].calc.income_to_collect
                       r == collect_income_endpoint(loaded[p][1], k, req[p].current_time)
                   IN  /\ reported = CollectPays(loaded[p][1], k, req[p].current_time)
                       /\ (r.code = 400) <=> (reported = 0)]_vars

\* sector k of ledger state is owned and at least one full cycle has elapsed
\* at current_time
ReadySector(state, k, current_time) ==
    /\ state.industries[k].level > 0
    /\ (current_time - state.industries[k].last_collect)
          \div CycleTime(INDUSTRIES_CONFIG[k].base_cycle_time, state.industries[k].level)
          >= 1

\* the ledger after collect_income on each sector of S in turn, at current_time
RECURSIVE CollectEach(_, _, _)
CollectEach(state, S, current_time) ==
    IF S = {} THEN state
    ELSE LET k == CHOOSE x \in S : TRUE
         IN  CollectEach(collect_income_endpoint(state, k, current_time).state,
                         S \ {k}, current_time)

\* C22: collect_all_income is collect_income on every ready sector at the
\* same clock value: its total is the sum of what collect_income credits
\* for the owned sectors with a full cycle elapsed, exactly those sectors
\* get last_collect = the request time, the others keep theirs, the
\* persisted ledger is the one the single collects leave, and nothing is
\* written when the total is 0.
C22_CollectAllIsEachCollect ==
    [][\A p \in Procs :
          (Steps(p) /\ pc[p] = "handle" /\ req[p].kind = "collect_all_income")
          => LET state == loaded[p][1]
                 t == req[p].current_time
                 ready == {k \in ConfigKeys : ReadySector(state, k, t)}
                 total == SumOver([k \in ConfigKeys |->
                                      IF k \in ready THEN CollectPays(state, k, t) ELSE 0],
                                  ConfigKeys)
             IN  /\ res'[p].code = 200
                 /\ res'[p].body.total_collected_income = total
                 /\ total = 0 => (ready = {} /\ store' = store)
                 /\ total > 0
                       => /\ store' = <<CollectEach(state, ready, t)>>
                          /\ store'[1].balance = state.balance + total
                          /\ \A k \in ConfigKeys :
                                store'[1].industries[k].last_collect
                                    = IF k \in ready THEN t
                                      ELSE state.industries[k].last_collect]_vars

\* collect_all_income collected from chorsu_market and left tourism, owned but
\* with no full cycle elapsed, as it was
C22_Witness ==
    \E p \in Procs :
        /\ Answered(p) /\ AllIdle
        /\ req[p].kind = "collect_all_income"
        /\ hist.last = Last(p, 200)
        /\ res[p].body.total_collected_income > 0
        /\ store # NoDoc
        /\ store[1].industries["tourism"].level = 1
        /\ store[1].industries["tourism"].last_collect < req[p].current_time
        /\ store[1].industries["tourism"].last_collect
              = loaded[p][1].industries["tourism"].last_collect
        /\ store[1].industries["chorsu_market"].last_collect = req[p].current_time
        /\ store[1].balance
              = loaded[p][1].balance + res[p].body.total_collected_income

\* C23: a successful upgrade_sector changes, besides the balance, only the
\* named sector: its level, its last_collect (the request time, so that its
\* pending income is 0) and its current_cycle_time; every other sector and
\* every other field of the persisted ledger is as before.
C23_UpgradeFrame ==
    [][\A p \in Procs :
          (UpgradeStep(p) /\ res'[p].code = 200)
          => LET key == req[p].sector_key
                 old == store[1]
                 new == store'[1]
             IN  /\ DOMAIN new = DOMAIN old
                 /\ \A f \in DOMAIN old \ {"balance", "industries"} : new[f] = old[f]
                 /\ DOMAIN new.industries = DOMAIN old.industries
                 /\ \A k \in DOMAIN old.industries \ {key} :
                       new.industries[k] = old.industries[k]
                 /\ new.industries[key].level = old.industries[key].level + 1
                 /\ new.industries[key].last_collect = req[p].current_time
                 /\ new.industries[key].current_cycle_time
                       = CycleTime(INDUSTRIES_CONFIG[key].base_cycle_time,
                                   new.industries[key].level)
                 /\ IncomeFields(key, new.industries[key], req[p].current_time)
                       .income_to_collect = 0
                 /\ CollectPays(new, key, req[p].current_time) = 0]_vars

\* tourism was bought while chorsu_market, collected earlier, kept its
\* level and its last_collect
C23_Witness ==
    \E p \in Procs :
        /\ Answered(p) /\ AllIdle
        /\ req[p].kind = "upgrade_sector" /\ req[p].sector_key = "tourism"
        /\ res[p].code = 200
        /\ hist.last = Last(p, 200)
        /\ store # NoDoc
        /\ store[1].industries["tourism"].last_collect = req[p].current_time
        /\ store[1].industries["chorsu_market"].last_collect > 0
        /\ store[1].industries["chorsu_market"].last_collect # req[p].current_time
        /\ store[1].industries["chorsu_market"]
              = loaded[p][1].industries["chorsu_market"]

\* C24: the cost load_state shows for a sector is the cost upgrade_sector
\* charges when it is applied to the same ledger, for every sector and
\* level; for a sector at level 0 it is the base_cost.
C24_ShownCostIsCharged ==
    (program = "api" /\ calc.charged)
    => /\ calc.shown = calc.cost
       /\ calc.level = 0 => calc.shown = INDUSTRIES_CONFIG[calc.key].base_cost

\* the cost shown and charged for buying tourism, and for raising
\* chorsu_market from level 2
C24_Witness ==
    /\ program = "api" /\ calc.charged
    /\ \/ calc.key = "tourism" /\ calc.level = 0 /\ calc.shown = 1000 /\ calc.cost = 1000
       \/ calc.key = "chorsu_market" /\ calc.level = 2 /\ calc.shown = 519
             /\ calc.cost = 519

\* C25: no level exceeds MAX_LEVEL: an upgrade_sector on a sector that is
\* at MAX_LEVEL does not raise its level (and charges nothing).
C25_LevelAtMostMax ==
    (program = "api" /\ calc.level >= MAX_LEVEL)
    => /\ calc.new_level <= MAX_LEVEL
       /\ calc.cost = 0

\* C26: for every configured sector and every level reached through upgrades
\* the cycle time is an integer from 1 up to the sector's base cycle time, and
\* it never grows with the level, so the collect operations never divide by
\* zero.
C26_CycleTimeBounded ==
    (program = "api" /\ calc.charged)
    => /\ 1 <= calc.next_cycle_time
       /\ calc.next_cycle_time <= calc.cycle_time
       /\ calc.cycle_time <= INDUSTRIES_CONFIG[calc.key].base_cycle_time

\* two upgrades that reach the levels where the product is no longer positive
\* and the cycle time stays at 1 second
C26_Witness ==
    /\ program = "api" /\ calc.charged
    /\ calc.new_level > 2 * MAX_LEVEL
    /\ calc.cycle_time = 1 /\ calc.next_cycle_time = 1

\* C27: in bot.py a callback whose data is "industry_", "collect_" or
\* "upgrade_" followed by an industry key is resolved by its handler to that
\* very industry, also when the key itself contains an underscore.
C27_CallbackResolvesKey ==
    (program = "bot" /\ botOut.handler \in {"handle_industry", "collect", "upgrade"})
    => /\ botOut.view.raised = ""
       /\ botOut.view.key = botOut.pressed

====
